---------------------------- MODULE Spec2Model ----------------------------
(***************************************************************************)
(* A model of the segmented, block-chunked write-ahead log of wal-rs.      *)
(*                                                                         *)
(* src/src/segment.rs  Segment: one log file, chunked write, chunked read  *)
(* src/src/wal.rs      Wal: the earlier single-file variant                *)
(* src/src/error.rs    WalError                                            *)
(*                                                                         *)
(* Byte strings (file contents, records, buffers) are kept run-length      *)
(* encoded: a byte string is a sequence of runs [b |-> byte, n |-> count]  *)
(* with n >= 1 and no two adjacent runs of the same byte, so that two byte *)
(* strings are equal exactly when their encodings are equal.  This is only *)
(* a representation of Vec<u8>: every operator below is defined by what it *)
(* does to the bytes, and BLOCK_SIZE keeps its real value.                 *)
(***************************************************************************)
EXTENDS Integers, Sequences, FiniteSets, TLC

-----------------------------------------------------------------------------
(* Program constants *)

\* segment.rs:16  pub(crate) const CHUNK_HEADER_SIZE: u32 = 7;
CHUNK_HEADER_SIZE == 7

\* segment.rs:19  pub(crate) const BLOCK_SIZE: u32 = 32 * 1024;
BLOCK_SIZE == 32 * 1024

\* the number of values of a u8 and of a u16
U8 == 2 ^ 8
U16 == 2 ^ 16

\* u32::MAX + 1 = U32_BLOCKS * BLOCK_SIZE: the least block number whose byte
\* offset no longer fits a u32
U32_BLOCKS == 2 ^ 17

-----------------------------------------------------------------------------
(* Byte strings, run-length encoded *)

Run(b, n) == [b |-> b, n |-> n]

\* vec![v; n]
Fill(v, n) == IF n = 0 THEN << >> ELSE << Run(v, n) >>

\* s.len()
RECURSIVE BLen(_)
BLen(s) == IF s = << >> THEN 0 ELSE Head(s).n + BLen(Tail(s))

\* s followed by t
BCat(s, t) ==
    IF s = << >> THEN t
    ELSE IF t = << >> THEN s
    ELSE IF s[Len(s)].b = t[1].b
         THEN SubSeq(s, 1, Len(s) - 1)
                \o << Run(t[1].b, s[Len(s)].n + t[1].n) >>
                \o Tail(t)
         ELSE s \o t

\* the first k bytes of s (all of s when it is shorter)
RECURSIVE BTake(_, _)
BTake(s, k) ==
    IF k <= 0 \/ s = << >> THEN << >>
    ELSE IF Head(s).n <= k
         THEN << Head(s) >> \o BTake(Tail(s), k - Head(s).n)
         ELSE << Run(Head(s).b, k) >>

\* s without its first k bytes
RECURSIVE BDrop(_, _)
BDrop(s, k) ==
    IF k <= 0 \/ s = << >> THEN s
    ELSE IF Head(s).n <= k
         THEN BDrop(Tail(s), k - Head(s).n)
         ELSE << Run(Head(s).b, Head(s).n - k) >> \o Tail(s)

\* &s[from..to]; the caller has checked from <= to <= s.len()
BSlice(s, from, to) == BTake(BDrop(s, from), to - from)

\* s[i], 0-based; the caller has checked i < s.len()
BAt(s, i) == BDrop(s, i)[1].b

\* the byte string of an explicit list of bytes
RECURSIVE BSeq(_)
BSeq(bytes) ==
    IF bytes = << >> THEN << >>
    ELSE BCat(<< Run(Head(bytes), 1) >>, BSeq(Tail(bytes)))

\* s with byte i replaced by v
BSet(s, i, v) ==
    BCat(BCat(BTake(s, i), << Run(v, 1) >>), BDrop(s, i + 1))

\* s is n bytes, all zero
AllZero(s) == \A k \in 1..Len(s) : s[k].b = 0

-----------------------------------------------------------------------------
(* Fixed-width integers *)

\* x does not fit a u32 (x >= 0): in a build with overflow checks the
\* operation that yields it panics
u32_overflows(x) == x \div U16 >= U16

\* x as u32: x modulo 2^32 = U16 * U16
u32_wrap(x) == ((x \div U16) % U16) * U16 + (x % U16)

\* x does not fit a usize of 64 bits (x >= 0), that is x >= 2^64: in a
\* build with overflow checks the operation that yields it panics
usize_overflows(x) == ((x \div U16) \div U16) \div U16 >= U16

\* u16::to_le_bytes
u16_to_le_bytes(x) == << x % U8, (x \div U8) % U8 >>

\* u32::to_le_bytes
u32_to_le_bytes(x) ==
    << x % U8, (x \div U8) % U8, (x \div (U8 * U8)) % U8,
       (x \div (U8 * U8 * U8)) % U8 >>

\* a decoder that drops the high byte of the length
u16_from_le_bytes_low(lo, hi) == lo

\* u16::from_le_bytes
u16_from_le_bytes(lo, hi) == lo + U8 * hi

\* byte v with bit k (0..7) inverted
FlipBit(v, k) ==
    LET w == 2 ^ k
    IN IF (v \div w) % 2 = 1 THEN v - w ELSE v + w

-----------------------------------------------------------------------------
(* Chunk codec *)

\* impl From<ChunkType> for u8
ChunkType_to_u8(t) ==
    CASE t = "Full" -> 0
      [] t = "First" -> 1
      [] t = "Middle" -> 2
      [] t = "Last" -> 3

\* impl From<u8> for ChunkType; any other tag is unreachable!(), a panic
ChunkType_from_u8(v) ==
    CASE v = 0 -> "Full"
      [] v = 1 -> "First"
      [] v = 2 -> "Middle"
      [] v = 3 -> "Last"
      [] OTHER -> "unreachable"

\* CRC-32 (ISO-HDLC), the checksum of crc32fast::Hasher and of
\* crc::CRC_32_ISO_HDLC.  A 32-bit register is the set of its bits that are
\* 1 (bit 0 the least significant), so that xor is symmetric difference.
Bits == 0..31

\* the reflected polynomial 0xEDB88320
CRC_POLY == {5, 8, 9, 15, 19, 20, 21, 23, 24, 26, 27, 29, 30, 31}

Xor(a, b) == (a \ b) \cup (b \ a)

\* one bit of input shifted out of the register
crc_shift(s) ==
    LET t == {i - 1 : i \in s \ {0}}
    IN  IF 0 \in s THEN Xor(t, CRC_POLY) ELSE t

crc_shift8(s) ==
    crc_shift(crc_shift(crc_shift(crc_shift(
        crc_shift(crc_shift(crc_shift(crc_shift(s))))))))

\* the bits of byte b
byte_bits(b) == {i \in 0..7 : (b \div 2 ^ i) % 2 = 1}

\* the byte k (0..3) of register s
byte_of(s, k) ==
    (IF 8 * k \in s THEN 1 ELSE 0) + (IF 8 * k + 1 \in s THEN 2 ELSE 0)
    + (IF 8 * k + 2 \in s THEN 4 ELSE 0) + (IF 8 * k + 3 \in s THEN 8 ELSE 0)
    + (IF 8 * k + 4 \in s THEN 16 ELSE 0)
    + (IF 8 * k + 5 \in s THEN 32 ELSE 0)
    + (IF 8 * k + 6 \in s THEN 64 ELSE 0)
    + (IF 8 * k + 7 \in s THEN 128 ELSE 0)

\* The update of the register by one byte is s -> crc_shift8(Xor(s, bits of
\* the byte)).  It is linear over xor in the register and the byte together:
\* a wide vector holds the register in bits 0..31 and the byte in bits
\* 32..39.
Wide == 0..39

\* register s together with byte b
with_byte(s, b) == s \cup {32 + i : i \in byte_bits(b)}

\* Hasher::update by the one byte held in v; the byte stays
crc_byte(v) ==
    crc_shift8(Xor(v \cap Bits, {i - 32 : i \in v \ Bits})) \cup (v \ Bits)

\* A linear map on wide vectors is the tuple of its rows: row j + 1 is the
\* set of input bits that bit j of the result is the xor of.  The maps here
\* all keep the byte, so that only the register is computed.
Apply(L, v) ==
    {j \in Bits : Cardinality(L[j + 1] \cap v) % 2 = 1} \cup (v \ Bits)

\* L after K
Compose(L, K) ==
    [j \in 1..40 |->
        {m \in Wide : Cardinality({i \in L[j] : m \in K[i + 1]}) % 2 = 1}]

\* crc_byte as a linear map
CrcByte == [j \in 1..40 |-> {i \in Wide : (j - 1) \in crc_byte({i})}]

\* runs are folded in pieces of 2^k bytes, k <= MaxPow
MaxPow == 17

\* the registers
Registers == SUBSET Bits

LinearMaps == Seq(SUBSET Wide)

\* the updates by 2^0 .. 2^k equal bytes: each the square of the one before
RECURSIVE crc_powers(_)
crc_powers(k) ==
    IF k = 0 THEN << CrcByte >>
    ELSE [prev \in Seq(LinearMaps) |->
             Append(prev, [p \in LinearMaps |-> Compose(p, p)][prev[k]])
         ][crc_powers(k - 1)]

CrcPowers == crc_powers(MaxPow)

\* the wide vector v after n more bytes equal to the byte it holds, taken in
\* pieces of 2^k bytes and less
RECURSIVE crc_run(_, _, _)
crc_run(v, n, k) ==
    IF n = 0 THEN v
    ELSE IF n < 2 ^ k THEN crc_run(v, n, k - 1)
    ELSE [t \in SUBSET Wide |-> crc_run(t, n - 2 ^ k, k)
         ][Apply(CrcPowers[k + 1], v)]

\* Hasher::update over the runs of s from register h, then finalize (the
\* complement) and u32::to_le_bytes
RECURSIVE checksum_fold(_, _)
checksum_fold(s, h) ==
    IF s = << >>
    THEN LET f == Bits \ h
         IN  << byte_of(f, 0), byte_of(f, 1), byte_of(f, 2), byte_of(f, 3) >>
    ELSE [h1 \in Registers |-> checksum_fold(Tail(s), h1)
         ][crc_run(with_byte(h, Head(s).b), Head(s).n, MaxPow) \cap Bits]

\* segment.rs:189-191  Hasher::new() starts from the register of all ones
checksum(covered) == checksum_fold(covered, Bits)

\* the buffer write_internal builds: checksum(4) length(2) type(1) payload
encode_chunk(chunk_data, chunk_type) ==
    LET data_size == BLen(chunk_data)
        tail == BCat(BSeq(u16_to_le_bytes(data_size % U16)
                            \o << ChunkType_to_u8(chunk_type) >>),
                     chunk_data)
    IN  BCat(BSeq(checksum(tail)), tail)

-----------------------------------------------------------------------------
(* Segment (segment.rs).  A Segment value is the handle together with the   *)
(* content of the file at file_path:                                        *)
(*   [id, file, current_block_number, current_block_size]                   *)

\* ChunkPosition
ChunkPosition(segment_id, block_number, chunk_offset) ==
    [segment_id |-> segment_id, block_number |-> block_number,
     chunk_offset |-> chunk_offset]

NoPosition == ChunkPosition(0, 0, 0)

\* the results an operation can have: Ok(..), Err(WalError) or a panic
Ok_position(p) == [tag |-> "Ok", position |-> p, data |-> << >>, err |-> ""]
Ok_bytes(d) == [tag |-> "Ok", position |-> NoPosition, data |-> d, err |-> ""]
Err(e) == [tag |-> "Err", position |-> NoPosition, data |-> << >>, err |-> e]
Panic(why) ==
    [tag |-> "Panic", position |-> NoPosition, data |-> << >>, err |-> why]

\* a write that replaces what the file holds
File_write_truncating(file, buf, taken) == BTake(buf, taken)

\* File::write on the handle of a Segment, opened with append(true)
\* (segment.rs:79): the bytes go to the end of the file.  One call hands
\* the buffer to the system once, and the system takes the first taken
\* bytes of it: all, or fewer (a short write, Ok(taken)), or none (Err).
File_write_append(file, buf, taken) == BCat(file, BTake(buf, taken))

\* What the file system does to the appends of one call of write:
\* at, taken: append number at of the call (0: none) is offered its buffer
\* and only taken bytes of it are written;
\* limit: no append makes the file longer than limit bytes (-1: no limit).
NoFault == [at |-> 0, taken |-> 0, limit |-> -1]

\* the bytes File::write takes of a buffer of len bytes, as append number j
\* of the call, the file being flen bytes long
bytes_taken(fault, j, flen, len) ==
    LET a == IF fault.at = j /\ fault.taken < len THEN fault.taken ELSE len
        room == IF fault.limit < 0 THEN a
                ELSE IF fault.limit > flen THEN fault.limit - flen
                ELSE 0
    IN  IF room < a THEN room ELSE a

\* the result of a call that returns Ok(())
Ok_unit == [tag |-> "Ok", position |-> NoPosition, data |-> << >>, err |-> ""]

\* Segment::sync: the file lock in write mode, then sync_all, whose error is
\* returned; io_ok: whether sync_all succeeds.  Returns [ret, seg].
Segment_sync(seg, io_ok) ==
    [ret |-> IF io_ok THEN Ok_unit ELSE Err("OpenFileFailed"), seg |-> seg]

\* segment.rs:76-80  File::options().read(true).create(true).append(true)
\* .open(): the file is created when absent and kept when present
File_open_append(existing) == existing

\* Segment::open on a path whose file holds existing.  io_ok: whether the
\* open of the file, the metadata() and the set_permissions() all succeed;
\* the error of any of them is returned.  The cursor always starts at
\* (0, 0).  Returns [ret, seg], seg being there when ret is Ok.  A segment
\* is [id, file, linked, current_block_number, current_block_size]: file is
\* the content of the file the handle is open on, linked whether file_path
\* still names that file.
Segment_open(id, existing, io_ok) ==
    IF io_ok
    THEN [ret |-> Ok_unit,
          seg |-> [id |-> id, file |-> File_open_append(existing),
                   linked |-> TRUE,
                   current_block_number |-> 0, current_block_size |-> 0]]
    ELSE [ret |-> Err("OpenFileFailed")]

\* the Segment of an open that succeeded
Opened(id, existing) == Segment_open(id, existing, TRUE).seg

\* Segment::remove: remove_file(&self.file_path), whose error is returned.
\* io_ok: whether the file system lets a file that is there be removed.
\* The path then names no file; the file itself lasts as long as the handle
\* of the Segment is open, so its content and the cursor stay.  Removing a
\* path that names no file, as a second remove does, is an error.
\* Returns [ret, seg].
Segment_remove(seg, io_ok) ==
    IF seg.linked /\ io_ok
    THEN [ret |-> Ok_unit, seg |-> [seg EXCEPT !.linked = FALSE]]
    ELSE [ret |-> Err("OpenFileFailed"), seg |-> seg]

\* what an open of seg.file_path finds there: the file of the segment, or
\* no file once it was removed, and then create(true) makes an empty one
file_at_path(seg) == IF seg.linked THEN seg.file ELSE << >>

\* a size that forgets the completed blocks
Segment_size_in_block(seg) == seg.current_block_size

\* segment.rs:107  the value of the u32 expression current_block_number *
\* BLOCK_SIZE + current_block_size, that is the integer modulo 2^32 =
\* U32_BLOCKS * BLOCK_SIZE, counted in blocks so that no intermediate value
\* is larger than the result
Segment_size(seg) ==
    ((seg.current_block_number + seg.current_block_size \div BLOCK_SIZE)
        % U32_BLOCKS) * BLOCK_SIZE
        + (seg.current_block_size % BLOCK_SIZE)

\* the u32 product of segment.rs:107, or the sum, overflows
Segment_size_overflows(seg) ==
    seg.current_block_number + seg.current_block_size \div BLOCK_SIZE
        >= U32_BLOCKS

\* the result of a call of size()
Ok_size(n) ==
    [tag |-> "Ok", position |-> NoPosition, data |-> << >>, err |-> "",
     size |-> n]

\* Segment::size as a call: the overflow is a panic in a build with overflow
\* checks, and the wrapped value, widened to u64, in one without
Segment_size_call(seg, debug_assertions) ==
    IF Segment_size_overflows(seg) /\ debug_assertions
    THEN Panic(IF seg.current_block_number >= U32_BLOCKS
               THEN "attempt to multiply with overflow"
               ELSE "attempt to add with overflow")
    ELSE Ok_size(Segment_size(seg))

\* a test that pads only when fewer than CHUNK_HEADER_SIZE bytes remain
padding_needed_strict(current_block_size) ==
    current_block_size + CHUNK_HEADER_SIZE > BLOCK_SIZE

\* segment.rs:112  the block has no room for a chunk header with payload
\* after it: CHUNK_HEADER_SIZE bytes or fewer remain.  The sum is a u32.
padding_needed(current_block_size) ==
    u32_wrap(current_block_size + CHUNK_HEADER_SIZE) >= BLOCK_SIZE

\* the fit test without the header
fits_in_block_no_header(current_block_size, data_size) ==
    current_block_size + data_size <= BLOCK_SIZE

\* segment.rs:131  the whole record and its header fit into the block: the
\* length is cast to u32 and the sum is a u32
fits_in_block(current_block_size, data_size) ==
    u32_wrap(current_block_size + u32_wrap(data_size) + CHUNK_HEADER_SIZE)
        <= BLOCK_SIZE

\* a type choice that tags the final chunk only when it is shorter than the
\* room of its block
chunk_type_of_short_last(data_to_write_size, data_size, chunk_size) ==
    IF data_to_write_size = data_size THEN "First"
    ELSE IF data_to_write_size = chunk_size
            /\ chunk_size < BLOCK_SIZE - CHUNK_HEADER_SIZE THEN "Last"
    ELSE "Middle"

\* segment.rs:159-167  the type of the chunk the loop is about to write
chunk_type_of(data_to_write_size, data_size, chunk_size) ==
    IF data_to_write_size = data_size THEN "First"
    ELSE IF data_to_write_size = chunk_size THEN "Last"
    ELSE "Middle"

\* an accounting that never rolls over to the next block
advance_cursor_no_roll(seg, n, debug_assertions) ==
    [ret |-> Ok_unit, seg |-> [seg EXCEPT !.current_block_size = @ + n]]

\* segment.rs:206-211  account n appended bytes to the cursor, in u32:
\* current_block_size += n as u32, then the roll-over to the next block.
\* Returns [ret, seg].
advance_cursor(seg, n, debug_assertions) ==
    LET sum == seg.current_block_size + u32_wrap(n)
        block_size == u32_wrap(sum)
    IN  IF debug_assertions /\ u32_overflows(sum)
        THEN [ret |-> Panic("attempt to add with overflow"), seg |-> seg]
        ELSE IF block_size # BLOCK_SIZE
        THEN [ret |-> Ok_unit,
              seg |-> [seg EXCEPT !.current_block_size = block_size]]
        ELSE IF debug_assertions
                /\ u32_overflows(seg.current_block_number + 1)
        THEN [ret |-> Panic("attempt to add with overflow"),
              seg |-> [seg EXCEPT !.current_block_size = block_size]]
        ELSE [ret |-> Ok_unit,
              seg |-> [seg EXCEPT
                          !.current_block_number = u32_wrap(@ + 1),
                          !.current_block_size = 0]]

\* Segment::write_internal.  taken: the bytes of buf that file.write(&buf)
\* writes; its result is only printed, the cursor moves by the length of buf
\* either way.  Returns [ret, seg].
write_internal(seg, chunk_data, chunk_type, taken, debug_assertions) ==
    LET buf == encode_chunk(chunk_data, chunk_type)
        seg1 == [seg EXCEPT !.file = File_write_append(@, buf, taken)]
    IN  IF seg.current_block_size > BLOCK_SIZE
        THEN [ret |-> Panic("Wrong! Can not exceed the block size"),
              seg |-> seg1]
        ELSE advance_cursor(seg1, BLen(buf), debug_assertions)

\* what one append of write_internal put where: the file offset it was
\* appended at, the cursor it was accounted at, its type and payload, and
\* the bytes of its buffer that were written
ChunkRecord(seg, chunk_data, chunk_type, taken) ==
    [at |-> BLen(seg.file),
     block |-> seg.current_block_number,
     off |-> seg.current_block_size,
     type |-> chunk_type,
     payload |-> chunk_data,
     taken |-> taken]

\* the file offset just past a chunk
EndOf(c) == c.at + CHUNK_HEADER_SIZE + BLen(c.payload)

\* the while loop of Segment::write (segment.rs:139-170).
\* appends: file appends this call has issued so far.
\* Returns [ret, seg, chunks].
RECURSIVE write_loop(_, _, _, _, _, _, _, _)
write_loop(seg, data, data_to_write_size, position, appends, fault, chunks, debug_assertions) ==
    IF data_to_write_size = 0
    THEN [ret |-> Ok_position(position), seg |-> seg, chunks |-> chunks]
    ELSE
    LET data_size == BLen(data)
        room == BLOCK_SIZE - seg.current_block_size - CHUNK_HEADER_SIZE
    IN  IF room < 0 /\ debug_assertions
        THEN [ret |-> Panic("attempt to subtract with overflow"),
              seg |-> seg, chunks |-> chunks]
        ELSE
        LET \* without overflow checks a negative room is room + 2^32
            chunk_size ==
                IF room >= 0
                THEN IF room > data_to_write_size
                     THEN data_to_write_size ELSE room
                ELSE IF u32_overflows(data_to_write_size - room)
                     THEN U16 * U16 + room ELSE data_to_write_size
            cur_write_idx == data_size - data_to_write_size
            end0 == cur_write_idx + chunk_size
            end == IF end0 > data_size THEN data_size ELSE end0
            chunk == BSlice(data, cur_write_idx, end)
            chunk_type ==
                chunk_type_of(data_to_write_size, data_size, chunk_size)
            taken == bytes_taken(fault, appends + 1, BLen(seg.file),
                                 BLen(chunk) + CHUNK_HEADER_SIZE)
            r == write_internal(seg, chunk, chunk_type, taken,
                                debug_assertions)
            chunks1 ==
                Append(chunks, ChunkRecord(seg, chunk, chunk_type, taken))
        IN  IF r.ret.tag = "Panic"
            THEN [ret |-> r.ret, seg |-> r.seg, chunks |-> chunks1]
            ELSE write_loop(r.seg, data, data_to_write_size - chunk_size,
                            position, appends + 1, fault, chunks1,
                            debug_assertions)

\* a position that names the block and not the offset in it
start_position_of_block(seg) ==
    ChunkPosition(seg.id, seg.current_block_number, 0)

\* segment.rs:124-128  the position write returns: the cursor after the
\* padding step, in this segment
start_position(seg) ==
    ChunkPosition(seg.id, seg.current_block_number, seg.current_block_size)

\* segment.rs:129-172  Segment::write from the cursor seg1 the padding step
\* left.  Returns [ret, seg, chunks].
write_record(seg1, data, appends, fault, debug_assertions) ==
    LET position == start_position(seg1)
        data_size == BLen(data)
    IN  IF debug_assertions
           /\ u32_overflows(seg1.current_block_size + u32_wrap(data_size)
                              + CHUNK_HEADER_SIZE)
        THEN [ret |-> Panic("attempt to add with overflow"), seg |-> seg1,
              chunks |-> << >>]
        ELSE IF fits_in_block(seg1.current_block_size, data_size)
        THEN LET taken == bytes_taken(fault, appends + 1, BLen(seg1.file),
                                      data_size + CHUNK_HEADER_SIZE)
                 r == write_internal(seg1, data, "Full", taken,
                                     debug_assertions)
             IN  [ret |-> IF r.ret.tag = "Panic" THEN r.ret
                          ELSE Ok_position(position),
                  seg |-> r.seg,
                  chunks |-> << ChunkRecord(seg1, data, "Full", taken) >>]
        ELSE write_loop(seg1, data, data_size, position, appends, fault,
                        << >>, debug_assertions)

\* the result of write with the bytes of padding it asked for
with_padding(w, padding) ==
    [ret |-> w.ret, seg |-> w.seg, chunks |-> w.chunks, padding |-> padding]

\* Segment::write.  Returns [ret, seg, chunks, padding] where padding is the
\* number of zero bytes write handed to the file before the record (0:
\* none).
Segment_write(seg, data, fault, debug_assertions) ==
    IF debug_assertions
       /\ u32_overflows(seg.current_block_size + CHUNK_HEADER_SIZE)
    THEN [ret |-> Panic("attempt to add with overflow"), seg |-> seg,
          chunks |-> << >>, padding |-> 0]
    ELSE IF ~padding_needed(seg.current_block_size)
    THEN with_padding(write_record(seg, data, 0, fault, debug_assertions),
                      0)
    ELSE
    LET padding ==
            IF seg.current_block_size < BLOCK_SIZE
            THEN BLOCK_SIZE - seg.current_block_size ELSE 0
        appends == IF padding > 0 THEN 1 ELSE 0
        taken == bytes_taken(fault, 1, BLen(seg.file), padding)
        seg0 == [seg EXCEPT
                    !.file = File_write_append(@, Fill(0, padding), taken)]
    IN  IF padding > 0 /\ taken = 0
        \* file.write(&padding)? returned the error
        THEN [ret |-> Err("OpenFileFailed"), seg |-> seg,
              chunks |-> << >>, padding |-> padding]
        ELSE IF debug_assertions
                /\ u32_overflows(seg.current_block_number + 1)
        THEN [ret |-> Panic("attempt to add with overflow"), seg |-> seg0,
              chunks |-> << >>, padding |-> padding]
        ELSE with_padding(
                 write_record(
                     [seg0 EXCEPT !.current_block_number = u32_wrap(@ + 1),
                                  !.current_block_size = 0],
                     data, appends, fault, debug_assertions),
                 padding)

\* the loop of Segment::read (segment.rs:220-257) over the file content.
\* reads: the read_exact_at calls made so far; fail_at: see Segment_read.
RECURSIVE read_loop(_, _, _, _, _, _, _)
read_loop(file, block_number, chunk_offset, result, reads, fail_at, debug_assertions) ==
    LET seg_size == BLen(file)
        \* (block_number * BLOCK_SIZE) as u64, the product taken in u32
        offset == (block_number % U32_BLOCKS) * BLOCK_SIZE
    IN  IF block_number >= U32_BLOCKS /\ debug_assertions
        THEN Panic("attempt to multiply with overflow")
        ELSE IF offset + BLOCK_SIZE > seg_size /\ offset > seg_size
        \* seg_size - offset below zero: a panic with overflow checks, and
        \* without them a buffer of nearly 2^64 bytes, which vec! refuses
        THEN Panic(IF debug_assertions
                   THEN "attempt to subtract with overflow"
                   ELSE "capacity overflow")
        ELSE
        LET size == IF offset + BLOCK_SIZE > seg_size
                    THEN seg_size - offset ELSE BLOCK_SIZE
            buf == BSlice(file, offset, offset + size)
        IN  IF fail_at = reads + 2 /\ size > 0
            \* file.read_exact_at(&mut buf, offset)? returned the error; on
            \* an empty buf it asks the file system nothing and cannot fail
            THEN Err("OpenFileFailed")
            ELSE IF usize_overflows(chunk_offset + CHUNK_HEADER_SIZE)
            \* segment.rs:238  the end of the header range, a sum taken in
            \* usize: a panic with overflow checks, and without them an end
            \* that wrapped to below the start of the range, which the
            \* slicing refuses
            THEN Panic(IF debug_assertions
                       THEN "attempt to add with overflow"
                       ELSE "slice index starts at a greater index than it ends")
            ELSE IF chunk_offset + CHUNK_HEADER_SIZE > size
            THEN Panic("range end index out of range for slice")
            ELSE
            LET header ==
                    BSlice(buf, chunk_offset, chunk_offset + CHUNK_HEADER_SIZE)
                length == u16_from_le_bytes(BAt(header, 4), BAt(header, 5))
                start == chunk_offset + CHUNK_HEADER_SIZE
            IN  IF start + length > size
                THEN Panic("range end index out of range for slice")
                ELSE
                LET result1 ==
                        BCat(result, BSlice(buf, start, start + length))
                    chunk_type == ChunkType_from_u8(BAt(header, 6))
                IN  IF chunk_type = "unreachable"
                    THEN Panic("internal error: entered unreachable code")
                    ELSE IF chunk_type = "Full" \/ chunk_type = "Last"
                    THEN Ok_bytes(result1)
                    ELSE IF debug_assertions
                            /\ u32_overflows(block_number + 1)
                    THEN Panic("attempt to add with overflow")
                    ELSE read_loop(file, u32_wrap(block_number + 1), 0,
                                   result1, reads + 1, fail_at,
                                   debug_assertions)

\* Segment::read.  fail_at: the call to the file system that fails (0:
\* none): 1 is file.metadata(), 1 + k the k-th read_exact_at; the error of
\* either is returned.
Segment_read(seg, block_number, chunk_offset, fail_at, debug_assertions) ==
    IF fail_at = 1 THEN Err("OpenFileFailed")
    ELSE read_loop(seg.file, block_number, chunk_offset, << >>, 0, fail_at,
                   debug_assertions)

-----------------------------------------------------------------------------
(* Wal (wal.rs), the single-file variant.  A Wal value is the handle with   *)
(* the content of its file: [file, seek, current_block_number,              *)
(* current_block_size].  The file is opened for writing without append, so  *)
(* File::write puts its bytes at the offset of the handle, seek.            *)

\* Wal::open: the file is created when absent and kept when present; the
\* handle starts at offset 0 and the cursor at (0, 0).  io_ok: whether the
\* open of the file succeeds; its error is returned.  Returns [ret, wal],
\* wal being there when ret is Ok.
Wal_open(existing, io_ok) ==
    IF io_ok
    THEN [ret |-> Ok_unit,
          wal |-> [file |-> existing, seek |-> 0,
                   current_block_number |-> 0, current_block_size |-> 0]]
    ELSE [ret |-> Err("OpenFileFailed")]

\* the Wal of an open that succeeded
WalOpened(existing) == Wal_open(existing, TRUE).wal

\* ChunkStartPosition
ChunkStartPosition(block_number, chunk_offset) ==
    [block_number |-> block_number, chunk_offset |-> chunk_offset]

\* File::write on a handle at offset seek that is not in append mode: the
\* bytes replace what the file holds from seek on and extend it
File_write_at(file, seek, buf) ==
    BCat(BCat(BTake(file, seek), buf), BDrop(file, seek + BLen(buf)))

\* the Wal once its write has run as s ran on the cursor alone
Wal_written(w, s) ==
    [ret |-> IF s.ret.tag = "Ok"
             THEN Ok_position(
                      ChunkStartPosition(s.ret.position.block_number,
                                         s.ret.position.chunk_offset))
             ELSE s.ret,
     wal |-> [file |-> File_write_at(w.file, w.seek, s.seg.file),
              seek |-> w.seek + BLen(s.seg.file),
              current_block_number |-> s.seg.current_block_number,
              current_block_size |-> s.seg.current_block_size]]

\* Wal::write and Wal::write_internal (wal.rs:80-180).  Their text is that
\* of Segment::write and Segment::write_internal but for the position type
\* and the mode of the file: the cursor arithmetic and the bytes handed to
\* File::write are those of Segment_write run on the cursor with no file
\* behind it, the limit of the fault counted from the offset of the handle;
\* the bytes that were taken then go to the offset of the handle.
\* Returns [ret, wal].
Wal_write(w, data, fault, debug_assertions) ==
    Wal_written(
        w,
        Segment_write([id |-> 0, file |-> << >>,
                       current_block_number |-> w.current_block_number,
                       current_block_size |-> w.current_block_size],
                      data,
                      [fault EXCEPT !.limit =
                          IF @ < 0 THEN @
                          ELSE IF @ > w.seek THEN @ - w.seek ELSE 0],
                      debug_assertions))

\* Wal::read (wal.rs:182-223).  Vec::with_capacity allocates and leaves the
\* vector empty, so read_at is handed a buffer of no bytes and buf stays
\* empty whatever the file holds.  fail_at: the call to the file system that
\* fails (0: none): 1 is file.metadata(), 2 the read_at; the error of either
\* is returned.
Wal_read(w, block_number, chunk_offset, fail_at, debug_assertions) ==
    LET len == BLen(w.file)
        offset == (block_number % U32_BLOCKS) * BLOCK_SIZE
        buf == << >>
        header == << >>
    IN  IF fail_at = 1
        THEN Err("OpenFileFailed")
        ELSE IF block_number >= U32_BLOCKS /\ debug_assertions
        THEN Panic("attempt to multiply with overflow")
        ELSE IF offset + BLOCK_SIZE > len /\ offset > len
        THEN Panic(IF debug_assertions
                   THEN "attempt to subtract with overflow"
                   ELSE "capacity overflow")
        ELSE IF fail_at = 2
        THEN Err("OpenFileFailed")
        ELSE IF usize_overflows(chunk_offset + CHUNK_HEADER_SIZE)
        \* wal.rs:202  the end of the header range, a sum taken in usize:
        \* a panic with overflow checks, and without them an end that
        \* wrapped to below the start of the range, which the slicing refuses
        THEN Panic(IF debug_assertions
                   THEN "attempt to add with overflow"
                   ELSE "slice index starts at a greater index than it ends")
        ELSE IF chunk_offset + CHUNK_HEADER_SIZE > BLen(buf)
        THEN Panic("range end index out of range for slice")
        ELSE IF BLen(header) # CHUNK_HEADER_SIZE
        THEN Panic("source slice length does not match destination")
        ELSE Ok_bytes(<< >>)

-----------------------------------------------------------------------------
(* Log Directory Manager.  Its code is not among the sources; it is         *)
(* modelled from the specification (sections 3 and 4.3) on top of Segment.  *)
(* A directory value is [active, older, segment_size_budget] with active a  *)
(* Segment and older a map from segment id to Segment.                      *)

EmptyMap == [id \in {} |-> Opened(id, << >>)]

Max(S) == CHOOSE x \in S : \A y \in S : y <= x

\* an open that leaves the cursor where Segment::open puts it, at (0, 0)
restore_cursor_none(s) == s

\* the cursor of a segment restored from the length of its file
restore_cursor(s) ==
    [s EXCEPT !.current_block_number = BLen(s.file) \div BLOCK_SIZE,
              !.current_block_size = BLen(s.file) % BLOCK_SIZE]

\* the segment files of a directory: id -> content
Disk(d) ==
    [id \in DOMAIN d.older \cup {d.active.id} |->
        IF id = d.active.id THEN d.active.file ELSE d.older[id].file]

\* an open that takes the segment file with the lowest id for the active one
LogDirectory_open_lowest(disk, segment_size_budget) ==
    IF DOMAIN disk = {}
    THEN [active |-> Opened(1, << >>), older |-> EmptyMap,
          segment_size_budget |-> segment_size_budget]
    ELSE LET low == CHOOSE x \in DOMAIN disk : \A y \in DOMAIN disk : x <= y
         IN  [active |-> restore_cursor(Opened(low, disk[low])),
              older |-> [id \in DOMAIN disk \ {low} |->
                            Opened(id, disk[id])],
              segment_size_budget |-> segment_size_budget]

\* open(directory, segment_size_budget) over the segment files in disk
LogDirectory_open(disk, segment_size_budget) ==
    IF DOMAIN disk = {}
    THEN [active |-> Opened(1, << >>), older |-> EmptyMap,
          segment_size_budget |-> segment_size_budget]
    ELSE LET top == Max(DOMAIN disk)
         IN  [active |-> restore_cursor(Opened(top, disk[top])),
              older |-> [id \in DOMAIN disk \ {top} |->
                            Opened(id, disk[id])],
              segment_size_budget |-> segment_size_budget]

\* a rotation test that also rotates when the record meets the budget exactly
must_rotate_at_budget(d, data) ==
    Segment_size(d.active) + BLen(data) + CHUNK_HEADER_SIZE
        >= d.segment_size_budget

\* the rotation test of write
must_rotate(d, data) ==
    Segment_size(d.active) + BLen(data) + CHUNK_HEADER_SIZE
        > d.segment_size_budget

\* a rotation that gives the new active segment the id of the old one
rotate_same_id(d) ==
    [d EXCEPT !.older = [id \in DOMAIN d.older \cup {d.active.id} |->
                            IF id = d.active.id THEN d.active
                            ELSE d.older[id]],
              !.active = Opened(d.active.id, << >>)]

\* rotation: the active segment joins the older map under its id and a new
\* segment with the next id becomes active
rotate(d) ==
    [d EXCEPT !.older = [id \in DOMAIN d.older \cup {d.active.id} |->
                            IF id = d.active.id THEN d.active
                            ELSE d.older[id]],
              !.active = Opened(d.active.id + 1, << >>)]

\* the directory and the result once its active segment has taken the write
written_to_active(d, w, rotated) ==
    [dir |-> [d EXCEPT !.active = w.seg], ret |-> w.ret,
     chunks |-> w.chunks, padding |-> w.padding, rotated |-> rotated]

\* the write delegated to the active segment of d
write_active(d, data, rotated, debug_assertions) ==
    written_to_active(
        d, Segment_write(d.active, data, NoFault, debug_assertions),
        rotated)

\* write(record_bytes).  Returns [dir, ret, chunks, padding, rotated].
LogDirectory_write(d, data, debug_assertions) ==
    IF must_rotate(d, data)
    THEN write_active(rotate(d), data, TRUE, debug_assertions)
    ELSE write_active(d, data, FALSE, debug_assertions)

\* a lookup that falls back to the active segment
LogDirectory_read_or_active(d, position, debug_assertions) ==
    IF position.segment_id \in DOMAIN d.older
    THEN Segment_read(d.older[position.segment_id], position.block_number,
                      position.chunk_offset, 0, debug_assertions)
    ELSE Segment_read(d.active, position.block_number,
                      position.chunk_offset, 0, debug_assertions)

\* read(position)
LogDirectory_read(d, position, debug_assertions) ==
    IF position.segment_id = d.active.id
    THEN Segment_read(d.active, position.block_number,
                      position.chunk_offset, 0, debug_assertions)
    ELSE IF position.segment_id \in DOMAIN d.older
    THEN Segment_read(d.older[position.segment_id], position.block_number,
                      position.chunk_offset, 0, debug_assertions)
    ELSE Err("SegmentFileNotFound")

-----------------------------------------------------------------------------
(* Bounds and inputs *)

\* calls of LogDirectory write per behaviour
MaxDirWrites == 3

\* times the directory is closed and opened again per behaviour
MaxReopens == 1

\* record lengths handed to the directory: the 2028 of the tests, one that
\* fills a block exactly, and the 45 KiB of the tests
DirRecordLens == {2028, BLOCK_SIZE - CHUNK_HEADER_SIZE, 45 * 1024}

\* segment size budgets: one that two records of 2028 bytes meet exactly,
\* one smaller than the largest record, and two blocks
Budgets == {2 * (2028 + CHUNK_HEADER_SIZE), 40000, 2 * BLOCK_SIZE}

\* segment ids handed to read by a caller that makes them up: one below
\* every id the directory gives out, the first two it gives out, and one
\* above every id it can reach
DirReadIds == {0, 1, 2, MaxDirWrites + 2}

\* calls of write per behaviour
MaxWrites == 2

\* a record of n bytes: the first n / 2 are 'A', the rest 'B', so that the
\* order of its parts shows
Pat(n) == BCat(Fill(65, n \div 2), Fill(66, n - n \div 2))

\* record lengths: empty, one byte, the 2028 of the tests, one that leaves
\* the block with exactly 7 bytes, one that leaves it with 5, one that fills
\* it exactly, the 45 KiB and 66 KiB of the tests, and one that fills three
\* blocks exactly
RecordLens ==
    {0, 1, 2028,
     BLOCK_SIZE - 2 * CHUNK_HEADER_SIZE,
     BLOCK_SIZE - 2 * CHUNK_HEADER_SIZE + 2,
     BLOCK_SIZE - CHUNK_HEADER_SIZE,
     45 * 1024,
     66 * 1024,
     3 * (BLOCK_SIZE - CHUNK_HEADER_SIZE)}

Records == {Pat(n) : n \in RecordLens}

\* what a failing File::write takes of its buffer: nothing (it returns the
\* error) or 3 bytes (it returns Ok(3))
ShortWrites == {0, 3}

\* limits on the length of the file (the file size limit of the process)
FileLimits == {1024, 32765, 40000}

\* records written on a failing file system: empty, the 2028 of the tests,
\* one that leaves the block with 5 bytes, and the 45 KiB of the tests
FaultRecords ==
    {Pat(n) : n \in {0, 2028, BLOCK_SIZE - 2 * CHUNK_HEADER_SIZE + 2,
                     45 * 1024}}

\* cursors a Segment is handed before the calls start: block numbers 0, 1,
\* 1000 and the first two whose byte offset does not fit a u32; block sizes
\* 0, 100, and those that leave 8, 7 and 1 bytes in the block
StartBlocks == {0, 1, 1000, U32_BLOCKS, U32_BLOCKS + 1}
StartSizes ==
    {0, 100, BLOCK_SIZE - CHUNK_HEADER_SIZE - 1,
     BLOCK_SIZE - CHUNK_HEADER_SIZE, BLOCK_SIZE - 1}

\* what the file of the Wal holds when it is opened: nothing, or the record
\* an earlier run left at the same path
ExistingFiles == {<< >>, encode_chunk(Pat(2028), "Full")}

\* threads that share one Segment
NThreads == 3

Threads == 1..NThreads

\* record lengths the threads write: one chunk, one that leaves the block
\* with 5 bytes, and one of three chunks
ThreadRecordLens ==
    {2028, BLOCK_SIZE - 2 * CHUNK_HEADER_SIZE + 2, 66 * 1024}

\* addresses a caller may hand to read besides the positions it was given
ReadBlocks == {0, 1, 2, U32_BLOCKS}
ReadOffsets == {0, CHUNK_HEADER_SIZE, BLOCK_SIZE - CHUNK_HEADER_SIZE + 1}

-----------------------------------------------------------------------------
(* State *)

VARIABLES
    seg,               \* the Segment under test and the content of its file
    log,               \* history: one entry per call of Segment::write
                       \* or of write_internal
    call,              \* the last operation called and its arguments
    ret,               \* what it returned
    halted,            \* a panic has unwound the caller
    debug_assertions,  \* the build checks integer overflow (debug profile)
    flip,              \* the bit of the file that was inverted, if any
    wal,               \* the Log Directory under test
    twin,              \* the same directory had it never been reopened
    dlog,              \* history: one entry per call of LogDirectory write
    reopens,           \* times the directory was closed and opened again
    torn,              \* the record a crash cut short, and where the file ends
    pc,                \* per thread: the call of Segment it is in
    job,               \* per thread: the arguments and progress of that call
    wal_rs,            \* the single-file Wal of wal.rs under test
    wlog               \* history: one entry per call of Wal::write

segvars == << seg, log, flip >>
dirvars == << wal, twin, dlog, reopens >>
thrvars == << pc, job >>
walvars == << wal_rs, wlog >>
vars == << seg, log, call, ret, halted, debug_assertions, flip,
           wal, twin, dlog, reopens, torn, pc, job, wal_rs, wlog >>

NoCall == [op |-> "none", i |-> 0, block_number |-> 0, chunk_offset |-> 0]
NoRet == [tag |-> "none", position |-> NoPosition, data |-> << >>, err |-> ""]
NoFlip == [i |-> 0, j |-> 0, byte |-> 0, bit |-> 0]
NoTear == [i |-> 0, cut |-> 0]
NoJob == [i |-> 0, data |-> << >>, pending |-> << >>, done |-> 0,
          ret |-> NoRet, chunks |-> << >>, padding |-> 0,
          size_before |-> 0, cursor_before |-> << 0, 0 >>]

\* no crash yet, every thread outside Segment, no Wal call yet
InitAux ==
    /\ torn = NoTear
    /\ pc = [t \in Threads |-> "idle"]
    /\ job = [t \in Threads |-> NoJob]
    /\ wlog = << >>

\* the state common to every start: nothing called yet, either build
InitCommon ==
    /\ seg = Opened(1, << >>)
    /\ log = << >>
    /\ call = NoCall
    /\ ret = NoRet
    /\ halted = FALSE
    /\ debug_assertions \in BOOLEAN
    /\ flip = NoFlip
    /\ dlog = << >>
    /\ reopens = 0
    /\ InitAux
    /\ wal_rs = WalOpened(<< >>)

\* a Segment opened on an absent file, used on its own
Init ==
    /\ InitCommon
    /\ wal = LogDirectory_open(EmptyMap, 0)
    /\ twin = wal

\* a Segment whose cursor the crate has set after open (the fields are
\* pub(crate), segment.rs:60-61), as the directory does when it restores
\* the cursor of a file it finds.  The bytes before the cursor are left
\* out: no operation of this start reads the file.
InitCursor ==
    /\ \E b \in StartBlocks, n \in StartSizes :
          seg = [Opened(1, << >>) EXCEPT
                    !.current_block_number = b, !.current_block_size = n]
    /\ log = << >>
    /\ call = NoCall
    /\ ret = NoRet
    /\ halted = FALSE
    /\ debug_assertions \in BOOLEAN
    /\ flip = NoFlip
    /\ dlog = << >>
    /\ reopens = 0
    /\ InitAux
    /\ wal = LogDirectory_open(EmptyMap, 0)
    /\ twin = wal
    /\ wal_rs = WalOpened(<< >>)

\* a Wal opened on a path, used on its own
InitWal ==
    /\ seg = Opened(1, << >>)
    /\ log = << >>
    /\ call = NoCall
    /\ ret = NoRet
    /\ halted = FALSE
    /\ debug_assertions \in BOOLEAN
    /\ flip = NoFlip
    /\ dlog = << >>
    /\ reopens = 0
    /\ InitAux
    /\ wal = LogDirectory_open(EmptyMap, 0)
    /\ twin = wal
    /\ \E existing \in ExistingFiles : wal_rs = WalOpened(existing)

\* a Log Directory opened on an empty directory with some budget
InitDir ==
    /\ InitCommon
    /\ \E b \in Budgets : wal = LogDirectory_open(EmptyMap, b)
    /\ twin = wal

\* the step of a call of Segment::write(data) that came out as w
WriteStep(data, fault, w) ==
        /\ seg' = w.seg
        /\ log' = Append(log, [data |-> data, ret |-> w.ret,
                               chunks |-> w.chunks, padding |-> w.padding,
                               fault |-> fault,
                               size_before |-> BLen(seg.file),
                               cursor_before |->
                                   << seg.current_block_number,
                                      seg.current_block_size >>])
        /\ call' = [NoCall EXCEPT !.op = "write", !.i = Len(log) + 1]
        /\ ret' = w.ret
        /\ halted' = (w.ret.tag = "Panic")
        /\ UNCHANGED << debug_assertions, flip, dirvars, torn, thrvars, walvars >>

\* one call of Segment::write(data) on a file system that does fault
DoWrite(data, fault) ==
    WriteStep(data, fault, Segment_write(seg, data, fault, debug_assertions))

\* Segment::write(data) on a working file system
Write ==
    /\ ~halted
    /\ Len(log) < MaxWrites
    /\ \E data \in Records : DoWrite(data, NoFault)

ReadStep(i, block_number, chunk_offset, r) ==
        /\ call' = [op |-> "read", i |-> i, block_number |-> block_number,
                    chunk_offset |-> chunk_offset]
        /\ ret' = r
        /\ halted' = (r.tag = "Panic")
        /\ UNCHANGED << seg, log, debug_assertions, flip, dirvars, torn, thrvars,
                        walvars >>

DoRead(i, block_number, chunk_offset) ==
    ReadStep(i, block_number, chunk_offset,
             Segment_read(seg, block_number, chunk_offset, 0,
                          debug_assertions))

\* Segment::read at a position an earlier write returned
Read ==
    /\ ~halted
    /\ \E i \in 1..Len(log) :
          /\ log[i].ret.tag = "Ok"
          /\ DoRead(i, log[i].ret.position.block_number,
                    log[i].ret.position.chunk_offset)

\* Segment::read at an address of the caller's making
ReadAt ==
    /\ ~halted
    /\ \E b \in ReadBlocks, o \in ReadOffsets : DoRead(0, b, o)

\* the faults a call of write that makes appends appends is run under: one
\* of its appends fails (nothing taken) or is cut short, or the file may
\* not grow beyond a limit
WriteFaults(appends) ==
    {[at |-> j, taken |-> t, limit |-> -1] :
        j \in 1..appends, t \in ShortWrites}
      \cup {[at |-> 0, taken |-> 0, limit |-> l] : l \in FileLimits}

\* the step of write(data) under fault, which would come out as w0 on a
\* working file system and comes out as w: some append is not whole
WriteFaultStep(data, fault, w0, w) ==
    /\ w.seg.file # w0.seg.file
    /\ WriteStep(data, fault, w)

\* Segment::write(data) on a file system that fails or cuts short an
\* append of the call: that of the padding when there is one, or that of a
\* chunk
WriteFault ==
    /\ ~halted
    /\ Len(log) < MaxWrites
    /\ \E data \in FaultRecords :
          \E fault \in WriteFaults(BLen(data) \div BLOCK_SIZE + 3) :
              WriteFaultStep(
                  data, fault,
                  Segment_write(seg, data, NoFault, debug_assertions),
                  Segment_write(seg, data, fault, debug_assertions))

\* the step of a call of Segment::read that came out as r on a file system
\* that failed a call of it
ReadFaultStep(i, block_number, chunk_offset, r) ==
    /\ call' = [op |-> "read_fault", i |-> i, block_number |-> block_number,
                chunk_offset |-> chunk_offset]
    /\ ret' = r
    /\ halted' = (r.tag = "Panic")
    /\ UNCHANGED << seg, log, debug_assertions, flip, dirvars, torn, thrvars,
                    walvars >>

\* Segment::read at a position an earlier write returned, on a file system
\* that fails the metadata() or one read_exact_at of the call
ReadFault ==
    /\ ~halted
    /\ \E i \in 1..Len(log) :
          /\ log[i].ret.tag = "Ok"
          /\ \E fail_at \in 1..(1 + Len(log[i].chunks)) :
                ReadFaultStep(
                    i, log[i].ret.position.block_number,
                    log[i].ret.position.chunk_offset,
                    Segment_read(seg, log[i].ret.position.block_number,
                                 log[i].ret.position.chunk_offset, fail_at,
                                 debug_assertions))

\* the places of a written chunk whose bits the corruption claim is about:
\* the two bytes of its length field and the ends of its payload
FlipPlaces(c) ==
    {c.at + 4, c.at + 5}
      \cup (IF c.payload = << >> THEN {}
            ELSE {c.at + CHUNK_HEADER_SIZE, EndOf(c) - 1})

\* the storage inverts one bit of a chunk some write appended
Flip ==
    /\ ~halted
    /\ flip = NoFlip
    /\ \E i \in 1..Len(log) :
         \E j \in 1..Len(log[i].chunks) :
          \E at \in FlipPlaces(log[i].chunks[j]) :
           \E bit \in 0..7 :
            /\ seg' = [seg EXCEPT !.file =
                          BSet(@, at, FlipBit(BAt(@, at), bit))]
            /\ flip' = [i |-> i, j |-> j, byte |-> at, bit |-> bit]
            /\ call' = [NoCall EXCEPT !.op = "flip", !.i = i]
            /\ ret' = NoRet
            /\ UNCHANGED << log, halted, debug_assertions, dirvars, torn,
                            thrvars, walvars >>

\* the step of a call of Segment::size() that came out as r
SizeStep(r) ==
    /\ call' = [NoCall EXCEPT !.op = "size"]
    /\ ret' = r
    /\ halted' = (r.tag = "Panic")
    /\ UNCHANGED << seg, log, debug_assertions, flip, dirvars, torn, thrvars,
                    walvars >>

\* Segment::size()
Size ==
    /\ ~halted
    /\ SizeStep(Segment_size_call(seg, debug_assertions))

\* the step of a call of Segment::sync() that came out as r
SyncStep(r) ==
    /\ seg' = r.seg
    /\ call' = [NoCall EXCEPT !.op = "sync"]
    /\ ret' = r.ret
    /\ UNCHANGED << log, halted, debug_assertions, flip, dirvars, torn,
                    thrvars, walvars >>

\* Segment::sync() on a file system that may fail it
Sync ==
    /\ ~halted
    /\ \E io_ok \in BOOLEAN : SyncStep(Segment_sync(seg, io_ok))

\* the step of a call of Segment::remove() that came out as r
RemoveStep(r) ==
    /\ seg' = r.seg
    /\ call' = [NoCall EXCEPT !.op = "remove"]
    /\ ret' = r.ret
    /\ UNCHANGED << log, halted, debug_assertions, flip, dirvars, torn,
                    thrvars, walvars >>

\* Segment::remove() on a file system that may fail it
Remove ==
    /\ ~halted
    /\ \E io_ok \in BOOLEAN : RemoveStep(Segment_remove(seg, io_ok))

\* the step of a Segment::open on the id and path of the segment that came
\* out as o: the Segment it returns takes the place of the one there was,
\* and without a Segment the program stops
OpenAgainStep(o) ==
    /\ seg' = IF o.ret.tag = "Ok" THEN o.seg ELSE seg
    /\ call' = [NoCall EXCEPT !.op = "open"]
    /\ ret' = o.ret
    /\ halted' = (o.ret.tag # "Ok")
    /\ UNCHANGED << log, debug_assertions, flip, dirvars, torn, thrvars,
                    walvars >>

\* the segment is opened again from its path, on a file system that may
\* fail it; the positions of earlier writes are read from the new Segment
OpenAgain ==
    /\ ~halted
    /\ \E io_ok \in BOOLEAN :
          OpenAgainStep(Segment_open(seg.id, file_at_path(seg), io_ok))

\* the lengths a crash during the write of entry e can leave the file with:
\* a First or Middle chunk complete and the next block missing, the header
\* of the final chunk cut short, its payload missing or cut short
TornCuts(e) ==
    LET c == e.chunks
        n == Len(c)
    IN  {EndOf(c[j]) : j \in 1..(n - 1)}
          \cup {c[n].at + 3}
          \cup (IF c[n].payload = << >> THEN {}
                ELSE {c[n].at + CHUNK_HEADER_SIZE, EndOf(c[n]) - 1})

\* the step of a crash that left the file cut bytes long, followed by the
\* Segment::open that came out as o: without a Segment the program stops
CrashStep(cut, o) ==
    /\ seg' = IF o.ret.tag = "Ok" THEN o.seg
              ELSE [seg EXCEPT !.file = BTake(@, cut)]
    /\ torn' = [i |-> Len(log), cut |-> cut]
    /\ call' = [NoCall EXCEPT !.op = "crash", !.i = Len(log)]
    /\ ret' = o.ret
    /\ halted' = (o.ret.tag # "Ok")
    /\ UNCHANGED << log, debug_assertions, flip, dirvars, thrvars, walvars >>

\* the process dies while the last write is under way and the file, still
\* at its path, keeps only a part of that record; the segment is then opened
\* again, which the file system may fail
Crash ==
    /\ ~halted
    /\ seg.linked
    /\ torn = NoTear
    /\ log # << >>
    /\ log[Len(log)].ret.tag = "Ok"
    /\ \E cut \in TornCuts(log[Len(log)]), io_ok \in BOOLEAN :
          CrashStep(cut, Segment_open(seg.id, BTake(seg.file, cut), io_ok))

\* segment.rs:110  write(&mut self, ..): the call needs the Segment to
\* itself, no other call on it is under way
may_call_write(t) == \A u \in Threads \ {t} : pc[u] = "idle"

\* a read that may start whatever the other threads are in
may_call_read_any(t) == TRUE

\* segment.rs:215  read(&self, ..): the call shares the Segment with other
\* reads, and with no write
may_call_read(t) == \A u \in Threads \ {t} : pc[u] # "writing"

\* the threads that hold the file lock in read mode, and those inside write
Readers == {t \in Threads : pc[t] = "reading"}
Writers == {t \in Threads : pc[t] = "writing"}

\* the buffers the call of write that came out as w appends, in order, each
\* with the cursor the call has once it is appended: the padding if any,
\* then one buffer per chunk
Appends(w) ==
    LET c == w.chunks
        n == Len(c)
    IN  (IF w.padding > 0
         THEN << [bytes |-> Fill(0, w.padding),
                  block |-> c[1].block, size |-> c[1].off] >>
         ELSE << >>)
        \o [j \in 1..n |->
              [bytes |-> encode_chunk(c[j].payload, c[j].type),
               block |-> IF j < n THEN c[j + 1].block
                         ELSE w.seg.current_block_number,
               size |-> IF j < n THEN c[j + 1].off
                        ELSE w.seg.current_block_size]]

\* thread t enters Segment::write(data), which will come out as w
BeginWriteStep(t, data, w) ==
    /\ pc' = [pc EXCEPT ![t] = "writing"]
    /\ job' = [job EXCEPT ![t] =
                 [i |-> 0, data |-> data, pending |-> Appends(w), done |-> 0,
                  ret |-> w.ret, chunks |-> w.chunks, padding |-> w.padding,
                  size_before |-> BLen(seg.file),
                  cursor_before |-> << seg.current_block_number,
                                       seg.current_block_size >>]]
    /\ UNCHANGED << seg, log, call, ret, halted, debug_assertions, flip,
                    dirvars, torn, walvars >>

BeginWrite ==
    /\ ~halted
    /\ Len(log) + Cardinality(Writers) < MaxWrites
    /\ \E t \in Threads :
          /\ pc[t] = "idle"
          /\ may_call_write(t)
          /\ \E data \in {Pat(n) : n \in ThreadRecordLens} :
                BeginWriteStep(t, data,
                               Segment_write(seg, data, NoFault,
                                             debug_assertions))

\* segment.rs:116-117, 195-201  one append of the call: the thread takes the
\* file lock in write mode, which no reader may hold, appends the buffer and
\* lets the lock go
AppendStep ==
    \E t \in Threads :
        /\ pc[t] = "writing"
        /\ job[t].pending # << >>
        /\ Readers = {}
        /\ seg' = [seg EXCEPT
                     !.file = File_write_append(
                                  @, Head(job[t].pending).bytes,
                                  BLen(Head(job[t].pending).bytes)),
                     !.current_block_number = Head(job[t].pending).block,
                     !.current_block_size = Head(job[t].pending).size]
        /\ job' = [job EXCEPT ![t].pending = Tail(@), ![t].done = @ + 1]
        /\ UNCHANGED << log, call, ret, halted, debug_assertions, flip,
                        dirvars, torn, pc, walvars >>

\* Segment::write returns
EndWrite ==
    \E t \in Threads :
        /\ pc[t] = "writing"
        /\ job[t].pending = << >>
        /\ log' = Append(log, [data |-> job[t].data, ret |-> job[t].ret,
                               chunks |-> job[t].chunks,
                               padding |-> job[t].padding,
                               fault |-> NoFault,
                               size_before |-> job[t].size_before,
                               cursor_before |-> job[t].cursor_before])
        /\ call' = [NoCall EXCEPT !.op = "write", !.i = Len(log) + 1]
        /\ ret' = job[t].ret
        /\ halted' = (job[t].ret.tag = "Panic")
        /\ pc' = [pc EXCEPT ![t] = "idle"]
        /\ job' = [job EXCEPT ![t] = NoJob]
        /\ UNCHANGED << seg, debug_assertions, flip, dirvars, torn,
                        walvars >>

\* segment.rs:215-216  thread t enters Segment::read at a position an
\* earlier write returned and takes the file lock in read mode
BeginRead ==
    /\ ~halted
    /\ \E t \in Threads :
          /\ pc[t] = "idle"
          /\ may_call_read(t)
          /\ \E i \in 1..Len(log) :
                /\ log[i].ret.tag = "Ok"
                /\ job' = [job EXCEPT ![t] = [NoJob EXCEPT !.i = i]]
          /\ pc' = [pc EXCEPT ![t] = "reading"]
          /\ UNCHANGED << seg, log, call, ret, halted, debug_assertions,
                          flip, dirvars, torn, walvars >>

\* segment.rs:217-259  the read runs over the file as it is and returns,
\* letting the lock go
EndRead ==
    \E t \in Threads :
        /\ pc[t] = "reading"
        /\ call' = [op |-> "read", i |-> job[t].i,
                    block_number |-> log[job[t].i].ret.position.block_number,
                    chunk_offset |-> log[job[t].i].ret.position.chunk_offset]
        /\ ret' = Segment_read(seg,
                               log[job[t].i].ret.position.block_number,
                               log[job[t].i].ret.position.chunk_offset,
                               0, debug_assertions)
        /\ halted' = (ret'.tag = "Panic")
        /\ pc' = [pc EXCEPT ![t] = "idle"]
        /\ job' = [job EXCEPT ![t] = NoJob]
        /\ UNCHANGED << seg, log, debug_assertions, flip, dirvars, torn,
                        walvars >>

\* the step of a call of Wal::write(data) that came out as w
WalWriteStep(data, w) ==
    /\ wal_rs' = w.wal
    /\ wlog' = Append(wlog, [data |-> data, ret |-> w.ret])
    /\ call' = [NoCall EXCEPT !.op = "wwrite", !.i = Len(wlog) + 1]
    /\ ret' = w.ret
    /\ halted' = (w.ret.tag = "Panic")
    /\ UNCHANGED << segvars, debug_assertions, dirvars, torn, thrvars >>

\* Wal::write(data)
WalWrite ==
    /\ ~halted
    /\ Len(wlog) < MaxWrites
    /\ \E data \in Records :
          WalWriteStep(data,
                       Wal_write(wal_rs, data, NoFault, debug_assertions))

\* Wal::read at the block number and chunk offset an earlier Wal::write on
\* the handle returned
WalRead ==
    /\ ~halted
    /\ \E i \in 1..Len(wlog) :
          /\ wlog[i].ret.tag = "Ok"
          /\ call' = [op |-> "wread", i |-> i,
                      block_number |-> wlog[i].ret.position.block_number,
                      chunk_offset |-> wlog[i].ret.position.chunk_offset]
          /\ ret' = Wal_read(wal_rs, wlog[i].ret.position.block_number,
                             wlog[i].ret.position.chunk_offset,
                             0, debug_assertions)
          /\ halted' = (ret'.tag = "Panic")
          /\ UNCHANGED << segvars, debug_assertions, dirvars, torn, thrvars,
                          walvars >>

\* the step of a call of LogDirectory write(data) that came out as w, and
\* as t on the twin
DirWriteStep(data, w, t) ==
              /\ wal' = w.dir
              /\ twin' = t.dir
              /\ dlog' = Append(dlog,
                     [data |-> data, ret |-> w.ret, chunks |-> w.chunks,
                      padding |-> w.padding, rotated |-> w.rotated,
                      twin_ret |-> t.ret,
                      after_reopen |-> (call.op = "reopen"),
                      cursor_before |->
                          << wal.active.current_block_number,
                             wal.active.current_block_size >>,
                      disk_before |-> Disk(wal),
                      active_before |-> wal.active.id,
                      older_before |-> DOMAIN wal.older,
                      disk_after |-> Disk(w.dir),
                      active_after |-> w.dir.active.id,
                      older_after |-> DOMAIN w.dir.older])
              /\ call' = [NoCall EXCEPT !.op = "dwrite", !.i = Len(dlog) + 1]
              /\ ret' = w.ret
              /\ halted' = (w.ret.tag = "Panic")
              /\ UNCHANGED << segvars, debug_assertions, reopens, torn,
                              thrvars, walvars >>

\* LogDirectory write(data); the twin takes the same call, with the same
\* outcome where it is in the same state
DirWrite ==
    /\ ~halted
    /\ Len(dlog) < MaxDirWrites
    /\ \E data \in {Pat(n) : n \in DirRecordLens} :
          LET w == LogDirectory_write(wal, data, debug_assertions)
          IN  DirWriteStep(data, w,
                  IF twin = wal THEN w
                  ELSE LogDirectory_write(twin, data, debug_assertions))

\* LogDirectory read at a position an earlier write returned
DirRead ==
    /\ ~halted
    /\ \E i \in 1..Len(dlog) :
          /\ dlog[i].ret.tag = "Ok"
          /\ call' = [NoCall EXCEPT !.op = "dread", !.i = i]
          /\ ret' = LogDirectory_read(wal, dlog[i].ret.position,
                                      debug_assertions)
          /\ halted' = (ret'.tag = "Panic")
          /\ UNCHANGED << segvars, dirvars, debug_assertions, torn, thrvars,
                          walvars >>

\* the step of a call of LogDirectory read at a position of the caller's
\* making that came out as r
DirReadAtStep(position, r) ==
    /\ call' = [op |-> "dreadat", i |-> position.segment_id,
                block_number |-> position.block_number,
                chunk_offset |-> position.chunk_offset]
    /\ ret' = r
    /\ halted' = (r.tag = "Panic")
    /\ UNCHANGED << segvars, dirvars, debug_assertions, torn, thrvars,
                    walvars >>

\* LogDirectory read at any segment id, known to the directory or not
DirReadAt ==
    /\ ~halted
    /\ \E id \in DirReadIds :
          DirReadAtStep(ChunkPosition(id, 0, 0),
                        LogDirectory_read(wal, ChunkPosition(id, 0, 0),
                                          debug_assertions))

\* the directory is closed and opened again over the same files
Reopen ==
    /\ ~halted
    /\ reopens < MaxReopens
    /\ wal' = LogDirectory_open(Disk(wal), wal.segment_size_budget)
    /\ reopens' = reopens + 1
    /\ call' = [NoCall EXCEPT !.op = "reopen"]
    /\ ret' = NoRet
    /\ UNCHANGED << segvars, twin, dlog, halted, debug_assertions, torn,
                    thrvars, walvars >>

\* Segment::write and Segment::read of returned positions
Next == Write \/ Read

Spec == Init /\ [][Next]_vars

\* ... and reads at addresses no write returned
NextAddr == Write \/ ReadAt

SpecAddr == Init /\ [][NextAddr]_vars

\* ... with appends that fail
NextFault == Write \/ WriteFault \/ Read \/ ReadFault

SpecFault == Init /\ [][NextFault]_vars

\* ... with a bit of the file inverted behind the segment's back
NextCorrupt == Write \/ Flip \/ Read

SpecCorrupt == Init /\ [][NextCorrupt]_vars

\* ... with a crash in the middle of a write, the removal of the file and
\* the opening of the segment once more
NextCrash == Write \/ Crash \/ Read \/ Remove \/ OpenAgain

SpecCrash == Init /\ [][NextCrash]_vars

\* threads sharing the Segment, each append of a write a step of its own
NextThreads == BeginWrite \/ AppendStep \/ EndWrite \/ BeginRead \/ EndRead

SpecThreads == Init /\ [][NextThreads]_vars

\* every operation of a Segment opened on an absent file
NextFrame == Write \/ Read \/ Size \/ Sync \/ Remove

SpecFrame == Init /\ [][NextFrame]_vars

\* Segment::write and Segment::size from any cursor
NextCursor == Write \/ Size

SpecCursor == InitCursor /\ [][NextCursor]_vars

\* the single-file Wal: writes and reads of returned positions
NextWal == WalWrite \/ WalRead

SpecWal == InitWal /\ [][NextWal]_vars

\* the Log Directory: writes, reads of returned positions, reopening
NextDir == DirWrite \/ DirRead \/ Reopen

SpecDir == InitDir /\ [][NextDir]_vars

\* ... with reads at segment ids of the caller's making
NextDirAddr == DirWrite \/ DirReadAt \/ Reopen

SpecDirAddr == InitDir /\ [][NextDirAddr]_vars

-----------------------------------------------------------------------------
(* Derived views of the history *)

\* the position a successful write returned, as a file offset
StartOf(e) ==
    e.ret.position.block_number * BLOCK_SIZE + e.ret.position.chunk_offset

\* the chunks of every call, in the order they were appended
RECURSIVE AllChunks(_)
AllChunks(l) == IF l = << >> THEN << >> ELSE Head(l).chunks \o AllChunks(Tail(l))

\* the payloads of a chunk sequence, concatenated
RECURSIVE Payloads(_)
Payloads(cs) ==
    IF cs = << >> THEN << >> ELSE BCat(Head(cs).payload, Payloads(Tail(cs)))

\* the file holds chunk c at c.at: its length field, type byte and payload
OnDisk(file, c) ==
    /\ EndOf(c) <= BLen(file)
    /\ BAt(file, c.at + 4) + U8 * BAt(file, c.at + 5) = BLen(c.payload)
    /\ BAt(file, c.at + 6) = ChunkType_to_u8(c.type)
    /\ BSlice(file, c.at + CHUNK_HEADER_SIZE, EndOf(c)) = c.payload

-----------------------------------------------------------------------------
(* Claims about Segment *)

\* C1: Segment.read at the position any write returned gives back exactly
\* the bytes of that record, right after the write and after every later
\* write, for single-chunk records (the empty one included) and for records
\* that span several blocks.
RoundTrip ==
    /\ \A i \in 1..Len(log) : log[i].ret.tag = "Ok"
    /\ (call.op = "read" /\ call.i > 0) => ret = Ok_bytes(log[call.i].data)

\* a multi-block record read back after a later write
RoundTripWitness ==
    /\ call.op = "read" /\ call.i = 1 /\ Len(log) = 2
    /\ Len(log[1].chunks) >= 3
    /\ ret.tag = "Ok" /\ ret.data = log[1].data
    /\ BLen(ret.data) > BLOCK_SIZE

\* C3: a record that fits with its header in the room left in the current
\* block (after the padding step) is written as exactly one Full chunk;
\* any other record as one First, zero or more Middle and one Last chunk in
\* block order, every chunk but the Last ending on a block boundary, every
\* chunk after the First starting at offset 0 of the next block, and the
\* payloads concatenated in that order being the record.
ChunkMappingOf(e) ==
    LET c == e.chunks
        n == Len(c)
        room == BLOCK_SIZE - e.ret.position.chunk_offset
    IN  /\ n >= 1
        /\ c[1].at = StartOf(e)
        /\ \A j \in 1..n : OnDisk(seg.file, c[j])
        /\ IF BLen(e.data) + CHUNK_HEADER_SIZE <= room
           THEN n = 1 /\ c[1].type = "Full" /\ c[1].payload = e.data
           ELSE /\ n >= 2
                /\ c[1].type = "First"
                /\ c[n].type = "Last"
                /\ \A j \in 2..(n - 1) : c[j].type = "Middle"
                /\ \A j \in 1..(n - 1) : EndOf(c[j]) % BLOCK_SIZE = 0
                /\ \A j \in 2..n :
                      c[j].at = (c[j - 1].at \div BLOCK_SIZE + 1) * BLOCK_SIZE
                /\ Payloads(c) = e.data

ChunkMapping ==
    \A i \in 1..Len(log) : log[i].ret.tag = "Ok" /\ ChunkMappingOf(log[i])

\* one record written as First, Middle.., Last from the middle of a block and
\* one written as a single Full chunk
ChunkMappingWitness ==
    \E i, k \in 1..Len(log) :
        /\ Len(log[i].chunks) >= 3
        /\ log[i].ret.position.chunk_offset > 0
        /\ log[i].chunks[2].type = "Middle"
        /\ Len(log[k].chunks) = 1 /\ log[k].chunks[1].type = "Full"

\* C4: no chunk header begins within CHUNK_HEADER_SIZE bytes of the end of
\* its block and no chunk crosses a block boundary (offset in block + header
\* + payload <= BLOCK_SIZE); the chunks lie in the file in the order written,
\* and whatever lies between one chunk and the next is a gap of zero bytes
\* that ends on a block boundary.
BlockAlignment ==
    LET cs == AllChunks(log)
    IN  /\ \A k \in 1..Len(cs) :
              LET o == cs[k].at % BLOCK_SIZE
              IN  /\ o + CHUNK_HEADER_SIZE < BLOCK_SIZE
                  /\ o + CHUNK_HEADER_SIZE + BLen(cs[k].payload) <= BLOCK_SIZE
                  /\ OnDisk(seg.file, cs[k])
        /\ (cs # << >>) => cs[1].at = 0 /\ EndOf(cs[Len(cs)]) = BLen(seg.file)
        /\ (cs = << >>) => seg.file = << >>
        /\ \A k \in 1..(Len(cs) - 1) :
              /\ EndOf(cs[k]) <= cs[k + 1].at
              /\ AllZero(BSlice(seg.file, EndOf(cs[k]), cs[k + 1].at))
              /\ EndOf(cs[k]) < cs[k + 1].at =>
                    /\ cs[k + 1].at % BLOCK_SIZE = 0
                    /\ cs[k + 1].at - EndOf(cs[k]) <= CHUNK_HEADER_SIZE

\* a block that ends in a gap of 5 zero bytes, followed by a record that
\* spans blocks
BlockAlignmentWitness ==
    /\ Len(log) >= 2
    /\ log[2].padding = 5
    /\ BSlice(seg.file, BLOCK_SIZE - 5, BLOCK_SIZE) = Fill(0, 5)
    /\ Len(log[2].chunks) >= 2

\* C2: once a bit of the length field or of the payload of a written chunk
\* is inverted, Segment.read at the position of the record holding that
\* chunk reports a corruption error, and never Ok with other bytes.
CorruptionDetected ==
    (flip.i > 0 /\ call.op = "read" /\ call.i = flip.i)
        => (ret.tag = "Err" /\ ret.err = "Corrupted")

\* C9: a write one of whose appends fails returns an I/O error, never Ok
\* with a position, and leaves the cursor where the file ends.
IoFailureReported ==
    (call.op = "write" /\ log[call.i].fault # NoFault)
        => /\ ret.tag = "Err" /\ ret.err = "OpenFileFailed"
           /\ Segment_size(seg) = BLen(seg.file)

\* the address lies beyond the end of a file of seg_size bytes: its block
\* starts at or after the end, or the block has fewer than chunk_offset +
\* CHUNK_HEADER_SIZE bytes
BeyondEnd(block_number, chunk_offset, seg_size) ==
    \/ block_number >= U32_BLOCKS
    \/ block_number * BLOCK_SIZE >= seg_size
    \/ chunk_offset + CHUNK_HEADER_SIZE > seg_size - block_number * BLOCK_SIZE
    \/ chunk_offset + CHUNK_HEADER_SIZE > BLOCK_SIZE

\* C10: Segment.read at an address beyond the end of the file returns an
\* out-of-range error value; it neither panics nor returns Ok.
OutOfRangeReported ==
    (call.op = "read" /\ call.i = 0
       /\ BeyondEnd(call.block_number, call.chunk_offset, BLen(seg.file)))
        => (ret.tag = "Err" /\ ret.err = "OutOfRange")

\* C15, as stated: Segment.write pads to the block boundary exactly when
\* fewer than CHUNK_HEADER_SIZE bytes remain in the current block; when
\* CHUNK_HEADER_SIZE or more remain (exactly 7 among them) it writes no
\* padding and returns the cursor it found as the position.
PadsBelowHeaderSize ==
    \A i \in 1..Len(log) :
        LET e == log[i]
            remain == BLOCK_SIZE - e.cursor_before[2]
        IN  /\ (e.padding > 0) <=> (remain < CHUNK_HEADER_SIZE)
            /\ remain >= CHUNK_HEADER_SIZE =>
                  /\ e.ret.position.block_number = e.cursor_before[1]
                  /\ e.ret.position.chunk_offset = e.cursor_before[2]

\* C15, amended: Segment.write pads to the block boundary and moves to the
\* next block exactly when CHUNK_HEADER_SIZE or fewer bytes remain in the
\* current block (exactly 7 among them): the padding is the zero bytes that
\* fill the block and the position returned is (current_block_number + 1,
\* 0).  When more than CHUNK_HEADER_SIZE bytes remain it writes no padding
\* and returns the cursor it found as the position.
PadsUpToHeaderSize ==
    \A i \in 1..Len(log) :
        LET e == log[i]
            remain == BLOCK_SIZE - e.cursor_before[2]
        IN  /\ e.cursor_before[2] < BLOCK_SIZE
            /\ (e.padding > 0) <=> (remain <= CHUNK_HEADER_SIZE)
            /\ e.padding > 0 =>
                  /\ e.padding = remain
                  /\ BSlice(seg.file, e.size_before,
                            e.size_before + e.padding) = Fill(0, e.padding)
                  /\ e.ret.position.block_number = e.cursor_before[1] + 1
                  /\ e.ret.position.chunk_offset = 0
            /\ remain > CHUNK_HEADER_SIZE =>
                  /\ e.ret.position.block_number = e.cursor_before[1]
                  /\ e.ret.position.chunk_offset = e.cursor_before[2]

\* a write that found exactly CHUNK_HEADER_SIZE bytes left in the block and
\* padded them, after one that found more and did not
PadsUpToHeaderSizeWitness ==
    /\ Len(log) >= 2
    /\ log[1].padding = 0
    /\ log[2].cursor_before[2] = BLOCK_SIZE - CHUNK_HEADER_SIZE
    /\ log[2].padding = CHUNK_HEADER_SIZE
    /\ log[2].ret.position.chunk_offset = 0

\* the cursor write_internal leaves after chunk c: the next block at size 0
\* when the chunk ends exactly at BLOCK_SIZE, else the same block
CursorAfter(c) ==
    LET end == c.off + CHUNK_HEADER_SIZE + BLen(c.payload)
    IN  IF end = BLOCK_SIZE THEN << c.block + 1, 0 >> ELSE << c.block, end >>

\* every chunk of entry e left the cursor the next chunk was written at, and
\* the last one left the cursor after
CursorChain(e, after) ==
    \A j \in 1..Len(e.chunks) :
        CursorAfter(e.chunks[j])
          = (IF j < Len(e.chunks)
             THEN << e.chunks[j + 1].block, e.chunks[j + 1].off >>
             ELSE after)

CursorInRange ==
    /\ seg.current_block_size >= 0
    /\ seg.current_block_size < BLOCK_SIZE
    /\ \A i \in 1..Len(log) :
          /\ log[i].ret.tag = "Ok"
          /\ CursorChain(log[i],
                         IF i < Len(log) THEN log[i + 1].cursor_before
                         ELSE << seg.current_block_number,
                                 seg.current_block_size >>)

BlockNumberGrows == seg'.current_block_number >= seg.current_block_number

\* C16: from cursor (0, 0) or any cursor with current_block_size below
\* BLOCK_SIZE, after every Segment.write 0 <= current_block_size <
\* BLOCK_SIZE holds, a chunk that ends exactly at BLOCK_SIZE leaves the
\* cursor at (current_block_number + 1, 0) and any other chunk in its block,
\* current_block_number never decreases, and no write panics.
CursorInvariant == []CursorInRange /\ [][BlockNumberGrows]_vars

\* from a cursor in the middle of a block far into the file, a record whose
\* last chunk ended exactly at BLOCK_SIZE
CursorInvariantWitness ==
    /\ log # << >>
    /\ log[1].cursor_before[1] >= U32_BLOCKS
    /\ log[1].cursor_before[2] > 0
    /\ Len(log[Len(log)].chunks) >= 2
    /\ seg.current_block_size = 0
    /\ LET c == log[Len(log)].chunks[Len(log[Len(log)].chunks)]
       IN  /\ c.off + CHUNK_HEADER_SIZE + BLen(c.payload) = BLOCK_SIZE
           /\ seg.current_block_number = c.block + 1

\* C20: Segment.size() returns the exact integer current_block_number *
\* BLOCK_SIZE + current_block_size (the number whose quotient by BLOCK_SIZE
\* is current_block_number and whose remainder is current_block_size), also
\* for current_block_number >= 2^32 / BLOCK_SIZE: it neither wraps nor
\* panics.
SizeExact ==
    call.op = "size" =>
        /\ ret.tag = "Ok"
        /\ ret.size \div BLOCK_SIZE = seg.current_block_number
        /\ ret.size % BLOCK_SIZE = seg.current_block_size

\* C17: after any sequence of Segment.write calls that returned Ok on a
\* segment whose file was empty when opened, Segment.size() is the length of
\* the file, and the cursor is (length / BLOCK_SIZE, length % BLOCK_SIZE).
SizeIsFileLength ==
    (\A i \in 1..Len(log) : log[i].ret.tag = "Ok") =>
        /\ Segment_size(seg) = BLen(seg.file)
        /\ seg.current_block_number = BLen(seg.file) \div BLOCK_SIZE
        /\ seg.current_block_size = BLen(seg.file) % BLOCK_SIZE
        /\ call.op = "size" => ret = Ok_size(BLen(seg.file))

\* size() called on a file of more than two blocks that holds a padded gap
SizeIsFileLengthWitness ==
    /\ call.op = "size"
    /\ ret.tag = "Ok" /\ ret.size = BLen(seg.file)
    /\ BLen(seg.file) > 2 * BLOCK_SIZE
    /\ \E i \in 1..Len(log) : log[i].padding > 0

WriteAppends ==
    /\ BLen(seg'.file) >= BLen(seg.file)
    /\ BTake(seg'.file, BLen(seg.file)) = seg.file
    /\ call'.op = "write" =>
          BLen(seg'.file) = BLen(seg.file)
              + log'[Len(log')].padding
              + CHUNK_HEADER_SIZE * Len(log'[Len(log')].chunks)
              + BLen(log'[Len(log')].data)

OthersLeaveUnchanged ==
    call'.op \in {"read", "size", "sync"} => seg' = seg

\* C18: Segment.write only appends: the file before the write is a prefix,
\* byte for byte, of the file after it, which is longer by the padding, the
\* headers and the record; Segment.read, Segment.size and Segment.sync
\* leave the file and the cursor as they were.
AppendOnly == [][WriteAppends /\ OthersLeaveUnchanged]_vars

\* a sync that failed, on a file that two writes built
AppendOnlyWitness ==
    /\ Len(log) = 2
    /\ log[1].data # << >>
    /\ call.op = "sync"
    /\ ret.tag = "Err"
    /\ log[2].size_before > 0
    /\ BLen(seg.file) > log[2].size_before

\* the position of entry i is below that of entry j, block number first
PositionBefore(i, j) ==
    \/ log[i].ret.position.block_number < log[j].ret.position.block_number
    \/ /\ log[i].ret.position.block_number
            = log[j].ret.position.block_number
       /\ log[i].ret.position.chunk_offset
            < log[j].ret.position.chunk_offset

\* C19: the positions successive Segment.write calls return are strictly
\* increasing in (block_number, chunk_offset), hence pairwise distinct, also
\* for empty records; each is the file offset block_number * BLOCK_SIZE +
\* chunk_offset at which the header of the record's first chunk starts.
PositionsIncrease ==
    /\ \A i, j \in 1..Len(log) : i < j => PositionBefore(i, j)
    /\ \A i \in 1..Len(log) :
          /\ log[i].ret.tag = "Ok"
          /\ log[i].ret.position.chunk_offset < BLOCK_SIZE
          /\ StartOf(log[i]) = log[i].size_before + log[i].padding
          /\ StartOf(log[i]) = log[i].chunks[1].at
          /\ OnDisk(seg.file, log[i].chunks[1])
          /\ log[i].chunks[1].type \in {"Full", "First"}

\* two empty records in a row, 7 bytes apart
PositionsIncreaseWitness ==
    /\ Len(log) >= 2
    /\ log[1].data = << >> /\ log[2].data = << >>
    /\ StartOf(log[2]) = StartOf(log[1]) + CHUNK_HEADER_SIZE

\* C11: when the file ends in the middle of a record (a First or Middle
\* chunk with the following block missing, or the final chunk's header or
\* payload cut short), Segment.read at that record's position returns a
\* corruption or end-of-file error value and does not panic.
TornTailReported ==
    (call.op = "read" /\ torn.i > 0 /\ call.i = torn.i
       /\ BLen(seg.file) = torn.cut)
        => (ret.tag = "Err" /\ ret.err \in {"Corrupted", "UnexpectedEof"})

\* C13: while a call of Segment.write is under way, from before its first
\* append until after its last, no thread holds the file lock for a read
\* and no other write is under way; so whenever a reader holds the lock the
\* file ends with a complete record and the cursor is at its end, and every
\* read returns its record whole.  Several readers may hold the lock at
\* once.
WriteExcludes ==
    /\ Cardinality(Writers) <= 1
    /\ Writers # {} => Readers = {}
    /\ Readers # {} =>
          /\ Segment_size(seg) = BLen(seg.file)
          /\ log # << >>
          /\ EndOf(log[Len(log)].chunks[Len(log[Len(log)].chunks)])
                = BLen(seg.file)
    /\ call.op = "read" => ret = Ok_bytes(log[call.i].data)

\* two readers hold the lock at once, on a file whose last record took
\* three appends, while the third thread is idle and may not start a write
WriteExcludesWitness ==
    /\ Cardinality(Readers) >= 2
    /\ Len(log[Len(log)].chunks) >= 3
    /\ \E t \in Threads : pc[t] = "idle" /\ ~may_call_write(t)

\* C14: Wal::read at the block number and chunk offset a successful
\* Wal::write on the same handle returned gives Ok with the bytes of the
\* record; it neither fails nor panics.
WalRoundTrip ==
    call.op = "wread" => ret = Ok_bytes(wlog[call.i].data)

-----------------------------------------------------------------------------
(* Claims about the Log Directory *)

\* C5: a write issued when active.size() + len(record) + CHUNK_HEADER_SIZE
\* exceeds the budget raises the active id by exactly 1 and moves the
\* previous active segment, intact, into the older map under its id; any
\* other write leaves the active id and the older map as they were; and
\* every position ever returned reads back its record through the
\* directory, also once its segment is an older one.
RotationBoundaryOf(e) ==
    IF e.cursor_before[1] * BLOCK_SIZE + e.cursor_before[2]
         + BLen(e.data) + CHUNK_HEADER_SIZE > wal.segment_size_budget
    THEN /\ e.rotated
         /\ e.active_after = e.active_before + 1
         /\ e.older_after = e.older_before \cup {e.active_before}
         /\ e.disk_after[e.active_before] = e.disk_before[e.active_before]
    ELSE /\ ~e.rotated
         /\ e.active_after = e.active_before
         /\ e.older_after = e.older_before

RotationBoundary ==
    /\ \A i \in 1..Len(dlog) : RotationBoundaryOf(dlog[i])
    /\ call.op = "dread" => ret = Ok_bytes(dlog[call.i].data)

\* a record read back through the older map after the write that rotated
\* its segment away, in a run that also met the budget exactly without
\* rotating
RotationBoundaryWitness ==
    /\ call.op = "dread"
    /\ dlog[call.i].ret.position.segment_id \in DOMAIN wal.older
    /\ ret.tag = "Ok" /\ ret.data = dlog[call.i].data
    /\ \E k \in 1..Len(dlog) :
          /\ ~dlog[k].rotated
          /\ dlog[k].cursor_before[2] + BLen(dlog[k].data) + CHUNK_HEADER_SIZE
               = wal.segment_size_budget

\* C6: every directory write appends all chunks of its record to one
\* segment file, the one named by the returned position and active after
\* the write; no other file changes, also when the write rotates and when
\* the record spans blocks.
OneSegmentOf(e) ==
    LET id == e.ret.position.segment_id
        n == Len(e.chunks)
    IN  /\ e.ret.tag = "Ok"
        /\ id = e.active_after
        /\ id \in DOMAIN e.disk_after
        /\ DOMAIN e.disk_after \ DOMAIN e.disk_before \subseteq {id}
        /\ \A k \in DOMAIN e.disk_before :
              /\ k \in DOMAIN e.disk_after
              /\ k # id => e.disk_after[k] = e.disk_before[k]
              /\ k = id => e.chunks[1].at >= BLen(e.disk_before[k])
        /\ n >= 1
        /\ e.chunks[1].at = StartOf(e)
        /\ \A j \in 1..n : OnDisk(e.disk_after[id], e.chunks[j])
        /\ EndOf(e.chunks[n]) = BLen(e.disk_after[id])
        /\ Payloads(e.chunks) = e.data

OneSegmentPerRecord == \A i \in 1..Len(dlog) : OneSegmentOf(dlog[i])

\* a write that rotated and then wrote a record spanning blocks
OneSegmentPerRecordWitness ==
    \E i \in 1..Len(dlog) :
        /\ dlog[i].rotated
        /\ Len(dlog[i].chunks) >= 2
        /\ dlog[i].ret.position.segment_id = dlog[i].active_before + 1

\* C7: the active segment is not in the older map, every id of the older
\* map is below the active id, and no step changes the file of an older
\* segment or removes it from the map.
OneActive ==
    /\ wal.active.id \notin DOMAIN wal.older
    /\ \A id \in DOMAIN wal.older :
          id < wal.active.id /\ wal.older[id].id = id

OlderFrozen ==
    \A id \in DOMAIN wal.older :
        /\ id \in DOMAIN wal'.older
        /\ wal'.older[id].file = wal.older[id].file

ActiveAndOlder == []OneActive /\ [][OlderFrozen]_vars

\* two older segments, one of them not empty, after a reopen and a write
ActiveAndOlderWitness ==
    /\ Cardinality(DOMAIN wal.older) >= 2
    /\ \E id \in DOMAIN wal.older : wal.older[id].file # << >>
    /\ reopens > 0
    /\ call.op = "dwrite"

\* C8: the reopened directory has the active segment id and the write
\* cursor of the directory that was never closed, the cursor being (file
\* length / BLOCK_SIZE, file length % BLOCK_SIZE); every write returns the
\* position it returns without the reopen, and a record written after a
\* reopen reads back.
ReopenIdempotent ==
    /\ wal.active = twin.active
    /\ DOMAIN wal.older = DOMAIN twin.older
    /\ wal.active.current_block_number
         = BLen(wal.active.file) \div BLOCK_SIZE
    /\ wal.active.current_block_size = BLen(wal.active.file) % BLOCK_SIZE
    /\ \A i \in 1..Len(dlog) :
          dlog[i].ret.tag = "Ok" /\ dlog[i].ret = dlog[i].twin_ret
    /\ (call.op = "dread" /\ dlog[call.i].after_reopen)
          => ret = Ok_bytes(dlog[call.i].data)

\* a record written right after a reopen, into a segment that already held
\* more than a block, and read back
ReopenIdempotentWitness ==
    /\ call.op = "dread"
    /\ dlog[call.i].after_reopen
    /\ ~dlog[call.i].rotated
    /\ dlog[call.i].ret.position.block_number >= 1
    /\ dlog[call.i].ret.position.chunk_offset > 0
    /\ ret.tag = "Ok" /\ ret.data = dlog[call.i].data

\* C12: LogDirectory.read with a segment id that is neither the active id
\* nor a key of the older map returns the 'segment not found' error, and a
\* read with a known id never returns that error.
SegmentNotFound ==
    call.op = "dreadat" =>
        IF call.i = wal.active.id \/ call.i \in DOMAIN wal.older
        THEN ret.err # "SegmentFileNotFound"
        ELSE ret = Err("SegmentFileNotFound")

\* after a rotation and a reopen, a read names an id below every segment and
\* the active segment holds a record
SegmentNotFoundWitness ==
    /\ call.op = "dreadat"
    /\ call.i \notin DOMAIN wal.older \cup {wal.active.id}
    /\ DOMAIN wal.older # {}
    /\ wal.active.file # << >>
    /\ reopens > 0
    /\ ret.tag = "Err" /\ ret.err = "SegmentFileNotFound"

=============================================================================
